---- MODULE Spec2Model ----
(***************************************************************************)
(* Sentinel: the report store (Firestore collections "reports" and         *)
(* "userVotes"), the MapView client (snapshot listeners, handleVote, the   *)
(* click handlers that compute the crime rate, the filter/sort pipeline),  *)
(* the ReportForm submission (classifier, radius input, addDoc followed by *)
(* setDoc) and the pending writes the Firestore client shows its listeners.*)
(***************************************************************************)
EXTENDS Integers, Sequences, FiniteSets, TLC

VARIABLES
  store,            \* Firestore collection "reports": doc id -> document data
  userVotes,        \* Firestore collection "userVotes": uid -> set of report ids set to true
  pendingSet,       \* ReportForm.handleSubmit between addDoc and setDoc: doc id -> data
  user,             \* the user prop of the mounted MapView (NoUser: none)
  reports,          \* MapView state `reports` (sequence in snapshot order)
  voted,            \* MapView state `voted` (set of report ids mapped to true)
  selectedPos,      \* MapView state `selectedPos` (<<>> is null, <<p>> a point)
  centerCrimeRate,  \* MapView state `centerCrimeRate`
  mapRefSet,        \* mapRef.current has been assigned by whenCreated
  handleClickOn,    \* the effect's handleClick is registered on the map
  showRadius,       \* MapView state `showRadius`
  circleAt,         \* circleRef.current: the click circle (<<>> none, <<p>> its centre)
  mapCenter,        \* MapView state `mapCenter`
  searchQuery,      \* MapView state `searchQuery`
  sortMode,         \* MapView state `sortMode`
  rangeKm,          \* MapView state `rangeKm`
  sortBy,           \* MapView state `sortBy`
  applied,          \* history: the <<uid, report id>> pairs whose increment was committed
  lastVote,         \* history: the last handleVote call and how it ended
  clickLog,         \* history: what each click listener passed to setCenterCrimeRate
  formRadius,       \* ReportForm state `radius` (the text of the number input)
  localWrite        \* the vote batch the Firestore client holds as a pending local
                    \* write (<<>> none, <<uid, report id, type>>)

storeVars == <<store, userVotes, pendingSet>>
voteVars  == <<applied, lastVote>>
riskVars  == <<selectedPos, centerCrimeRate, mapRefSet, handleClickOn, showRadius, circleAt,
              clickLog>>
queryVars == <<mapCenter, searchQuery, sortMode, rangeKm, sortBy>>
formVars  == <<formRadius>>
cacheVars == <<localWrite>>
vars == <<store, userVotes, pendingSet, user, reports, voted, selectedPos,
          centerCrimeRate, mapRefSet, handleClickOn, showRadius, circleAt, mapCenter,
          searchQuery, sortMode, rangeKm, sortBy, applied, lastVote, clickLog,
          formRadius, localWrite>>

----------------------------------------------------------------------------
(* Bounds of the model *)

MaxReports == 3      \* length of the snapshots delivered to the listeners
MaxVotes == 2        \* cap on the committed votes on one report
MaxQueryLen == 2     \* length of the search strings tried

----------------------------------------------------------------------------
(* Values *)

Users == {"u1", "u2"}
NoUser == "null"
ReportIds == {1, 2}
VoteTypes == {1, -1}

\* Positions are points on one meridian, given as metres from its origin.
Points == {0, 600, 1500}

\* characters of titles, descriptions and search strings
Chars == {"a", "b", "A", " "}

\* geolib getDistance between two points of the meridian, in metres
getDistance(a, b) == IF a >= b THEN a - b ELSE b - a

\* Math.round of the non-negative quotient sum / n (halves round up)
MathRound(sum, n) == (2 * sum + n) \div (2 * n)

RECURSIVE SumSeq(_)
SumSeq(s) == IF s = <<>> THEN 0 ELSE s[1] + SumSeq(Tail(s))

\* A document's data. `has` names the optional fields the document carries;
\* a field that is absent holds the filler 0 / [up |-> 0, down |-> 0].
Has(r, f) == f \in r.has
AllFields == {"pos", "radius", "crimeProb", "votes"}

Doc(has, pos, title, desc, category, up, down, radius, crimeProb) ==
  [has |-> has, pos |-> pos, title |-> title, desc |-> desc, category |-> category,
   radius |-> radius, crimeProb |-> crimeProb, votes |-> [up |-> up, down |-> down],
   createdAt |-> "t0"]

\* { id: d.id, ...d.data() }
WithId(id, data) ==
  [has |-> data.has, pos |-> data.pos, title |-> data.title, desc |-> data.desc,
   category |-> data.category, radius |-> data.radius, crimeProb |-> data.crimeProb,
   votes |-> data.votes, createdAt |-> data.createdAt, id |-> id]

\* the ids of a set in ascending order (a query snapshot lists documents by id)
RECURSIVE SortedIds(_)
SortedIds(S) ==
  IF S = {} THEN <<>>
  ELSE LET m == CHOOSE x \in S : \A y \in S : x <= y
       IN <<m>> \o SortedIds(S \ {m})

----------------------------------------------------------------------------
(* Strings *)

\* String.prototype.toLowerCase on one character
LowerChar(c) == IF c = "A" THEN "a" ELSE c

toLowerCase(s) == [i \in DOMAIN s |-> LowerChar(s[i])]

\* String.prototype.includes
includes(text, q) ==
  \E i \in 0..(Len(text) - Len(q)) : SubSeq(text, i + 1, i + Len(q)) = q

----------------------------------------------------------------------------
(* The filter / sort pipeline of MapView (filteredReports) *)

\* SearchFilter without lower-casing the query
SearchFilterQueryCase(r, query) ==
  LET text == toLowerCase(r.title \o <<" ">> \o r.desc)
  IN includes(text, query)

\* search filter: `${r.title} ${r.desc}`.toLowerCase().includes(searchQuery.toLowerCase())
SearchFilter(r, query) ==
  LET text == toLowerCase(r.title \o <<" ">> \o r.desc)
  IN includes(text, toLowerCase(query))

\* distance filter
DistanceFilter(r, mode, center, range) ==
  IF mode = "nearby" /\ center # <<>> /\ Has(r, "pos")
  THEN getDistance(center[1], r.pos) <= range * 1000
  ELSE TRUE

\* const order = { Severe: 3, Moderate: 2, Low: 1 }; order[c] || 0
SeverityOrder(c) ==
  IF c = "Severe" THEN 3 ELSE IF c = "Moderate" THEN 2 ELSE IF c = "Low" THEN 1 ELSE 0

\* Comparator with a and b exchanged (ascending order)
ComparatorAscending(a, b, key) ==
  IF key = "upvotes" THEN a.votes.up - b.votes.up
  ELSE IF key = "downvotes" THEN a.votes.down - b.votes.down
  ELSE IF key = "severity" THEN SeverityOrder(a.category) - SeverityOrder(b.category)
  ELSE 0

\* the sort comparator: negative or zero keeps a before b
Comparator(a, b, key) ==
  IF key = "upvotes" THEN b.votes.up - a.votes.up
  ELSE IF key = "downvotes" THEN b.votes.down - a.votes.down
  ELSE IF key = "severity" THEN SeverityOrder(b.category) - SeverityOrder(a.category)
  ELSE 0

\* the comparator reads a.votes.up of a record without votes: a TypeError
ComparatorThrows(s, key) ==
  /\ Len(s) >= 2
  /\ key \in {"upvotes", "downvotes"}
  /\ \E i \in DOMAIN s : ~Has(s[i], "votes")

\* x placed behind every element the comparator does not put after it
InsertSorted(s, x, key) ==
  LET keep == {i \in DOMAIN s : \A j \in 1..i : Comparator(s[j], x, key) <= 0}
      k == Cardinality(keep)
  IN SubSeq(s, 1, k) \o <<x>> \o SubSeq(s, k + 1, Len(s))

\* Array.prototype.sort (stable since ES2019) with the comparator above
RECURSIVE StableSort(_, _)
StableSort(s, key) ==
  IF s = <<>> THEN <<>>
  ELSE InsertSorted(StableSort(SubSeq(s, 1, Len(s) - 1), key), s[Len(s)], key)

\* the two .filter calls
Filtered(rs, query, mode, center, range) ==
  LET F1(r) == SearchFilter(r, query)
      F2(r) == DistanceFilter(r, mode, center, range)
  IN SelectSeq(SelectSeq(rs, F1), F2)

\* filteredReports: ok = FALSE when the sort throws
FilteredReportsOf(rs, query, mode, center, range, key) ==
  LET f == Filtered(rs, query, mode, center, range)
  IN IF ComparatorThrows(f, key)
     THEN [ok |-> FALSE, list |-> <<>>]
     ELSE [ok |-> TRUE, list |-> StableSort(f, key)]

filteredReports == FilteredReportsOf(reports, searchQuery, sortMode, mapCenter, rangeKm, sortBy)

\* the report list renders r.votes.up - r.votes.down and r.pos.lat.toFixed(3) of every entry
ListRenders ==
  /\ filteredReports.ok
  /\ \A i \in DOMAIN filteredReports.list :
        Has(filteredReports.list[i], "pos") /\ Has(filteredReports.list[i], "votes")

----------------------------------------------------------------------------
(* The crime rate computed on a map click *)

\* Nearby with the fixed radius of the click circle (800) for every report
NearbyFixedRadius(click, rs) ==
  LET InRadius(r) == Has(r, "pos") /\ getDistance(click, r.pos) <= 800
  IN SelectSeq(rs, InRadius)

\* reports.filter(...) of both click listeners
Nearby(click, rs) ==
  LET InRadius(r) ==
        /\ Has(r, "pos")
        /\ getDistance(click, r.pos) <= (IF Has(r, "radius") THEN r.radius ELSE 800)
  IN SelectSeq(rs, InRadius)

\* the radius of the circle drawn for a report marker: r.radius ?? 300
MarkerRadius(r) == IF Has(r, "radius") THEN r.radius ELSE 300

score(cat) == IF cat = "Severe" THEN 90 ELSE IF cat = "Moderate" THEN 60 ELSE 30

\* MapEvents.click: Math.round of the average severity score
CategoryRate(click, rs) ==
  LET nearby == Nearby(click, rs)
  IN IF Len(nearby) > 0
     THEN MathRound(SumSeq([i \in DOMAIN nearby |-> score(nearby[i].category)]), Len(nearby))
     ELSE 0

\* handleClick: Math.round of the average crimeProb ?? 50
CrimeProbRate(click, rs) ==
  LET nearby == Nearby(click, rs)
      prob(r) == IF Has(r, "crimeProb") THEN r.crimeProb ELSE 50
  IN IF Len(nearby) > 0
     THEN MathRound(SumSeq([i \in DOMAIN nearby |-> prob(nearby[i])]), Len(nearby))
     ELSE 0

----------------------------------------------------------------------------
(* Initial state: MapView mounted for a signed-in user, location obtained *)

\* useState(...) initial values of MapView, once the geolocation callback has run
ClientInit ==
  /\ reports = <<>>
  /\ voted = {}
  /\ selectedPos = <<>>
  /\ centerCrimeRate = 0
  /\ mapRefSet = FALSE
  /\ handleClickOn = FALSE
  /\ showRadius = FALSE
  /\ circleAt = <<>>
  /\ mapCenter = <<0>>
  /\ searchQuery = <<>>
  /\ sortMode = "nearby"
  /\ rangeKm = 7
  /\ sortBy = "upvotes"

\* ReportForm: useState(300) of the radius input
FormInit == formRadius = <<"3", "0", "0">>

\* the Firestore client holds no pending write
CacheInit == localWrite = <<>>

HistoryInit ==
  /\ applied = {}
  /\ lastVote = "none"
  /\ clickLog = <<>>

StoreInit ==
  /\ store = <<>>
  /\ userVotes = [u \in Users |-> {}]
  /\ pendingSet = <<>>

Init ==
  /\ StoreInit
  /\ user \in Users
  /\ ClientInit
  /\ FormInit
  /\ CacheInit
  /\ HistoryInit

----------------------------------------------------------------------------
(* The store: ReportForm submission *)

\* the data object handleSubmit builds, for the form inputs tried
FormData(position) ==
  Doc(AllFields, position, <<"a">>, <<"b">>, "Severe", 0, 0, 300, 0)

\* addDataToFirestore: addDoc creates the document under a fresh id
AddDoc(data) ==
  /\ \E id \in ReportIds \ DOMAIN store :
        /\ store' = [i \in DOMAIN store \cup {id} |-> IF i = id THEN data ELSE store[i]]
        /\ pendingSet' = [i \in DOMAIN pendingSet \cup {id} |->
                            IF i = id THEN data ELSE pendingSet[i]]
  /\ UNCHANGED <<userVotes, user, reports, voted, riskVars, queryVars, voteVars, formVars,
                 cacheVars>>

\* setDataToFirestore: setDoc replaces the document by the same data object;
\* a failed write is caught and logged
SetDoc(id) ==
  /\ id \in DOMAIN pendingSet
  /\ \/ store' = [store EXCEPT ![id] = pendingSet[id]]
     \/ store' = store
  /\ pendingSet' = [i \in DOMAIN pendingSet \ {id} |-> pendingSet[i]]
  /\ UNCHANGED <<userVotes, user, reports, voted, riskVars, queryVars, voteVars, formVars,
                 cacheVars>>

----------------------------------------------------------------------------
(* Voting *)

VotesOn(id) == store[id].votes.up + store[id].votes.down

\* Increment as a write of the whole document: only the votes are kept
IncrementOverwrite(data, type) ==
  LET v == IF Has(data, "votes") THEN data.votes ELSE [up |-> 0, down |-> 0]
  IN Doc({"votes"}, 0, <<>>, <<>>, "", IF type = 1 THEN v.up + 1 ELSE v.up,
         IF type = 1 THEN v.down ELSE v.down + 1, 0, 0)

\* { [field]: increment(1) } applied to a document
Increment(data, type) ==
  LET v == IF Has(data, "votes") THEN data.votes ELSE [up |-> 0, down |-> 0]
  IN [data EXCEPT !.has = data.has \cup {"votes"},
                  !.votes = IF type = 1 THEN [v EXCEPT !.up = v.up + 1]
                                        ELSE [v EXCEPT !.down = v.down + 1]]

\* BatchCommit as two separate writes: the merge into userVotes/<uid> can be
\* applied while the update of the report is lost
BatchCommitNotAtomic(uid, reportId, type) ==
  \/ /\ reportId \in DOMAIN store
     /\ VotesOn(reportId) < MaxVotes
     /\ store' = [store EXCEPT ![reportId] = Increment(store[reportId], type)]
     /\ userVotes' = [userVotes EXCEPT ![uid] = userVotes[uid] \cup {reportId}]
     /\ applied' = applied \cup {<<uid, reportId>>}
     /\ lastVote' = "committed"
  \/ /\ userVotes' = [userVotes EXCEPT ![uid] = userVotes[uid] \cup {reportId}]
     /\ UNCHANGED <<store, applied>>
     /\ lastVote' = IF reportId \in DOMAIN store THEN "Unavailable" ELSE "NotFound"

\* BatchCommit with batch.set(..., {merge: true}) in place of batch.update: a
\* report document that does not exist is created by the vote
BatchCommitUpsert(uid, reportId, type) ==
  \/ /\ reportId \in DOMAIN store
     /\ VotesOn(reportId) < MaxVotes
     /\ store' = [store EXCEPT ![reportId] = Increment(store[reportId], type)]
     /\ userVotes' = [userVotes EXCEPT ![uid] = userVotes[uid] \cup {reportId}]
     /\ applied' = applied \cup {<<uid, reportId>>}
     /\ lastVote' = "committed"
  \/ /\ reportId \notin DOMAIN store
     /\ store' = [i \in DOMAIN store \cup {reportId} |->
                    IF i = reportId
                    THEN Increment(Doc({}, 0, <<>>, <<>>, "", 0, 0, 0, 0), type)
                    ELSE store[i]]
     /\ userVotes' = [userVotes EXCEPT ![uid] = userVotes[uid] \cup {reportId}]
     /\ applied' = applied \cup {<<uid, reportId>>}
     /\ lastVote' = "NotFound"
  \/ /\ UNCHANGED <<store, userVotes, applied>>
     /\ lastVote' = IF reportId \in DOMAIN store THEN "Unavailable" ELSE "NotFound"

\* BatchCommit as a read-modify-write of the client: the votes written are
\* the votes of the copy the client holds in `reports` (none: 0 / 0) plus one
BatchCommitReadModifyWrite(uid, reportId, type) ==
  \/ /\ reportId \in DOMAIN store
     /\ VotesOn(reportId) < MaxVotes
     /\ LET held == {i \in DOMAIN reports : reports[i].id = reportId}
            v == IF held = {} THEN [up |-> 0, down |-> 0]
                 ELSE reports[CHOOSE i \in held : TRUE].votes
        IN store' = [store EXCEPT ![reportId].votes =
                       IF type = 1 THEN [v EXCEPT !.up = v.up + 1]
                                   ELSE [v EXCEPT !.down = v.down + 1]]
     /\ userVotes' = [userVotes EXCEPT ![uid] = userVotes[uid] \cup {reportId}]
     /\ applied' = applied \cup {<<uid, reportId>>}
     /\ lastVote' = "committed"
  \/ /\ UNCHANGED <<store, userVotes, applied>>
     /\ lastVote' = IF reportId \in DOMAIN store THEN "Unavailable" ELSE "NotFound"

\* batch.commit(): the update of reports/<reportId> and the merge into
\* userVotes/<uid> are applied together, or the batch is rejected as a whole
\* (always when the report document does not exist)
BatchCommit(uid, reportId, type) ==
  \/ /\ reportId \in DOMAIN store
     /\ VotesOn(reportId) < MaxVotes
     /\ store' = [store EXCEPT ![reportId] = Increment(store[reportId], type)]
     /\ userVotes' = [userVotes EXCEPT ![uid] = userVotes[uid] \cup {reportId}]
     /\ applied' = applied \cup {<<uid, reportId>>}
     /\ lastVote' = "committed"
  \/ /\ UNCHANGED <<store, userVotes, applied>>
     /\ lastVote' = IF reportId \in DOMAIN store THEN "Unavailable" ELSE "NotFound"

\* handleVote(reportId, type) of a MapView whose user prop is uid
handleVote(uid, reportId, type) ==
  /\ IF uid = NoUser
     THEN /\ lastVote' = "Unauthenticated"
          /\ UNCHANGED <<store, userVotes, applied>>
     ELSE BatchCommit(uid, reportId, type)
  /\ UNCHANGED <<pendingSet, user, reports, voted, riskVars, queryVars, formVars, cacheVars>>

\* a click on a vote arrow of the report list (disabled={voted[r.id]})
VoteArrowClick(i, type) ==
  /\ user # NoUser
  /\ ListRenders
  /\ i \in DOMAIN filteredReports.list
  /\ filteredReports.list[i].id \notin voted
  /\ handleVote(user, filteredReports.list[i].id, type)

----------------------------------------------------------------------------
(* Snapshot listeners *)

\* snapshot.docs.map((d) => ({ id: d.id, ...d.data() }))
SnapshotOf(st) ==
  LET ids == SortedIds(DOMAIN st)
  IN [i \in DOMAIN ids |-> WithId(ids[i], st[ids[i]])]

\* the documents as the Firestore client shows them to its listeners: the
\* server's documents with the pending local write applied (the update of a
\* report that does not exist applies to nothing)
LocalStore ==
  IF localWrite # <<>> /\ localWrite[2] \in DOMAIN store
  THEN [store EXCEPT ![localWrite[2]] = Increment(store[localWrite[2]], localWrite[3])]
  ELSE store

\* userVotes/<uid> as the Firestore client shows it to its listener
LocalVotes(uid) ==
  IF localWrite # <<>> /\ localWrite[1] = uid
  THEN userVotes[uid] \cup {localWrite[2]}
  ELSE userVotes[uid]

\* OnReportsSnapshot that keeps the entries it holds and appends the
\* documents whose id it does not hold yet
OnReportsSnapshotMerge(data) ==
  /\ user # NoUser
  /\ LET held == {reports[i].id : i \in DOMAIN reports}
         New(r) == r.id \notin held
     IN reports' = reports \o SelectSeq(data, New)
  /\ handleClickOn' = mapRefSet
  /\ UNCHANGED <<storeVars, user, voted, selectedPos, centerCrimeRate, mapRefSet,
                 showRadius, circleAt, clickLog, queryVars, voteVars, formVars, cacheVars>>

\* the reports listener: setReports(data)
OnReportsSnapshot(data) ==
  /\ user # NoUser
  /\ reports' = data
  /\ handleClickOn' = mapRefSet
  /\ UNCHANGED <<storeVars, user, voted, selectedPos, centerCrimeRate, mapRefSet,
                 showRadius, circleAt, clickLog, queryVars, voteVars, formVars, cacheVars>>

\* the userVotes listener: if (snap.exists()) setVoted(snap.data())
OnVotesSnapshot ==
  /\ user # NoUser
  /\ voted' = IF LocalVotes(user) # {} THEN LocalVotes(user) ELSE voted
  /\ UNCHANGED <<storeVars, user, reports, riskVars, queryVars, voteVars, formVars, cacheVars>>

----------------------------------------------------------------------------
(* Specification: the store and one MapView client *)

Next ==
  \/ \E p \in {0} : AddDoc(FormData(p))
  \/ \E id \in ReportIds : SetDoc(id)
  \/ \E i \in 1..Cardinality(ReportIds), t \in VoteTypes : VoteArrowClick(i, t)
  \/ OnReportsSnapshot(SnapshotOf(store))
  \/ OnVotesSnapshot

Spec == Init /\ [][Next]_vars

----------------------------------------------------------------------------
(* Specification: handleVote called with any user and any report id *)

HandleVoteCall(uid, reportId, type) == handleVote(uid, reportId, type)

NextVote ==
  \/ \E p \in {0} : AddDoc(FormData(p))
  \/ \E id \in ReportIds : SetDoc(id)
  \/ \E u \in Users \cup {NoUser}, id \in ReportIds, t \in VoteTypes : HandleVoteCall(u, id, t)

SpecVote == Init /\ [][NextVote]_vars

----------------------------------------------------------------------------
(* Claims about voting *)

Voters(id) == {u \in Users : id \in userVotes[u]}

\* C1: for every (userId, reportId) pair at most one vote is counted, so the
\* votes counted on a report (votes.up + votes.down) never exceed the number
\* of users that have the report in their voted set.
C1_AtMostOneVotePerUser ==
  \A id \in DOMAIN store : VotesOn(id) <= Cardinality(Voters(id))

\* C2: a vote is all-or-nothing: a report is in a user's voted set if and
\* only if that user's increment of the report's count was committed, also
\* after a write that failed.
C2_VoteAllOrNothing ==
  \A u \in Users, id \in ReportIds : (id \in userVotes[u]) <=> (<<u, id>> \in applied)

\* C2 witness: a vote was committed and a later write was rejected
C2_Witness ==
  /\ lastVote = "Unavailable"
  /\ \E u \in Users, id \in DOMAIN store :
        id \in userVotes[u] /\ <<u, id>> \in applied /\ VotesOn(id) > 0

\* C3: votes.up and votes.down of a report never decrease.
C3_VotesNeverDecrease ==
  [][\A id \in DOMAIN store :
        /\ store'[id].votes.up >= store[id].votes.up
        /\ store'[id].votes.down >= store[id].votes.down]_vars

\* C4: a vote attempt without a user, or on a report id that references no
\* existing report, changes no report and no user's voted set.
C4_RejectedVoteChangesNothing ==
  [][\A u \in Users \cup {NoUser}, id \in ReportIds, t \in VoteTypes :
        (handleVote(u, id, t) /\ (u = NoUser \/ id \notin DOMAIN store))
          => UNCHANGED <<store, userVotes>>]_vars

\* C4 witness: an attempt on a report id without document was made while
\* another report exists and the store holds a committed vote
C4_Witness ==
  /\ lastVote = "NotFound"
  /\ DOMAIN store # {}
  /\ applied # {}

\* C17: votes by distinct users on one report never lose an update: each
\* successful vote of a user who has not voted on the report yet raises
\* votes.up by exactly 1 for an upvote and votes.down by exactly 1 for a
\* downvote, leaves the other counter as it is, and adds the report to that
\* user's voted set while every earlier voter keeps it; so n such votes with
\* k upvotes raise votes.up by k and votes.down by n - k.
C17_NoLostUpdate ==
  [][\A u \in Users, id \in ReportIds, t \in VoteTypes :
        (handleVote(u, id, t) /\ lastVote' = "committed" /\ id \notin userVotes[u])
          => /\ store'[id].votes.up = store[id].votes.up + (IF t = 1 THEN 1 ELSE 0)
             /\ store'[id].votes.down = store[id].votes.down + (IF t = -1 THEN 1 ELSE 0)
             /\ \A v \in Users : id \in userVotes'[v] <=> (v = u \/ id \in userVotes[v])]_vars

\* C17 witness: both users voted on one report, one up and one down, and
\* the report counts one upvote and one downvote
C17_Witness ==
  /\ lastVote = "committed"
  /\ \E id \in DOMAIN store :
        /\ store[id].votes = [up |-> 1, down |-> 1]
        /\ Voters(id) = Users
        /\ \A u \in Users : <<u, id>> \in applied

\* C18: a successful vote changes only one of votes.up / votes.down of the
\* targeted report and the voting user's voted-set entry for that report:
\* the other fields of the target, every other report, every other user's
\* voted set and this user's existing entries stay as they are; and no step
\* deletes a report.
C18_VoteFrame ==
  [][/\ DOMAIN store \subseteq DOMAIN store'
     /\ \A u \in Users, id \in ReportIds, t \in VoteTypes :
          (handleVote(u, id, t) /\ lastVote' = "committed")
            => /\ DOMAIN store' = DOMAIN store
               /\ \A j \in DOMAIN store \ {id} : store'[j] = store[j]
               /\ store'[id].pos = store[id].pos
               /\ store'[id].title = store[id].title
               /\ store'[id].desc = store[id].desc
               /\ store'[id].category = store[id].category
               /\ store'[id].radius = store[id].radius
               /\ store'[id].crimeProb = store[id].crimeProb
               /\ store'[id].createdAt = store[id].createdAt
               /\ store[id].has \subseteq store'[id].has
               /\ \/ /\ store'[id].votes.up = store[id].votes.up + 1
                     /\ store'[id].votes.down = store[id].votes.down
                  \/ /\ store'[id].votes.up = store[id].votes.up
                     /\ store'[id].votes.down = store[id].votes.down + 1
               /\ \A v \in Users \ {u} : userVotes'[v] = userVotes[v]
               /\ userVotes'[u] = userVotes[u] \cup {id}]_vars

\* C18 witness: a vote was committed while both reports exist, u1 holds
\* entries for both of them and u2 holds an entry as well
C18_Witness ==
  /\ lastVote = "committed"
  /\ DOMAIN store = ReportIds
  /\ userVotes["u1"] = ReportIds
  /\ userVotes["u2"] # {}

----------------------------------------------------------------------------
(* Claims about the reports listener *)

\* C11: the in-memory report collection always equals the most recently
\* delivered snapshot and holds one entry per report id: whenever it changes
\* it becomes the snapshot of the store being delivered, and a delivery of
\* the snapshot it already equals leaves it as it is.
C11_ReportsAreLastSnapshot ==
  /\ [](\A i \in DOMAIN reports, j \in DOMAIN reports :
          reports[i].id = reports[j].id => i = j)
  /\ [][/\ reports' # reports => reports' = SnapshotOf(store)
        /\ (OnReportsSnapshot(SnapshotOf(store)) /\ reports = SnapshotOf(store))
              => reports' = reports]_vars

\* C11 witness: the collection holds two reports and a vote that was cast
\* from an earlier delivery, and equals the snapshot of the store
C11_Witness ==
  /\ Len(reports) = 2
  /\ reports = SnapshotOf(store)
  /\ \E i \in DOMAIN reports : reports[i].votes.up = 1

----------------------------------------------------------------------------
(* Specification: the crime rate of the clicked point *)

\* documents of the snapshots tried: with and without pos, radius, crimeProb
RiskDoc(k) ==
  CASE k = 1 -> Doc(AllFields, 0, <<"a">>, <<"b">>, "Severe", 0, 0, 300, 0)
    [] k = 2 -> Doc(AllFields \ {"crimeProb"}, 0, <<"a">>, <<"b">>, "Moderate", 0, 0, 300, 0)
    [] k = 3 -> Doc(AllFields, 600, <<"a">>, <<"b">>, "Low", 0, 0, 1000, 80)
    [] k = 4 -> Doc(AllFields \ {"radius"}, 600, <<"a">>, <<"b">>, "Uncategorized", 0, 0, 0, 0)
    [] k = 5 -> Doc(AllFields \ {"pos"}, 0, <<"a">>, <<"b">>, "Severe", 0, 0, 300, 0)

RiskDocIds == 1..5

\* the non-decreasing sequences of up to MaxReports indices out of ks
IndexSeqs(ks) ==
  UNION { {g \in [1..n -> ks] : \A i \in 1..n, j \in 1..n : i <= j => g[i] <= g[j]} :
          n \in 0..MaxReports }

\* the snapshots tried: ids 1..n, the documents in ascending k
RiskSnapshots ==
  {[i \in DOMAIN f |-> WithId(i, RiskDoc(f[i]))] : f \in IndexSeqs(RiskDocIds)}

InitRisk ==
  /\ StoreInit
  /\ user = "u1"
  /\ ClientInit
  /\ FormInit
  /\ CacheInit
  /\ HistoryInit

\* whenCreated of MapContainer: mapRef.current = map
WhenCreated ==
  /\ ~mapRefSet
  /\ mapRefSet' = TRUE
  /\ UNCHANGED <<storeVars, user, reports, voted, selectedPos, centerCrimeRate,
                 handleClickOn, showRadius, circleAt, clickLog, queryVars, voteVars, formVars,
                 cacheVars>>

\* the "Show radius" checkbox; the effect with deps [reports, showRadius] runs again
ToggleShowRadius ==
  /\ showRadius' = ~showRadius
  /\ handleClickOn' = mapRefSet
  /\ UNCHANGED <<storeVars, user, reports, voted, selectedPos, centerCrimeRate,
                 mapRefSet, circleAt, clickLog, queryVars, voteVars, formVars, cacheVars>>

\* the calls of setCenterCrimeRate made by the listeners of one map click;
\* the order of the two listeners follows which of them was registered last
ClickCalls(click, rs, both) ==
  LET cat == [by |-> "MapEvents", rate |-> CategoryRate(click, rs)]
      prob == [by |-> "handleClick", rate |-> CrimeProbRate(click, rs)]
  IN IF both THEN {<<cat, prob>>, <<prob, cat>>} ELSE {<<cat>>}

\* a click on the map at point p
Click(p) ==
  /\ selectedPos' = <<p>>
  /\ \E calls \in ClickCalls(p, reports, handleClickOn) :
        /\ clickLog' = calls
        /\ centerCrimeRate' = calls[Len(calls)].rate
  /\ circleAt' = IF showRadius THEN <<p>> ELSE <<>>
  /\ UNCHANGED <<storeVars, user, reports, voted, mapRefSet, handleClickOn, showRadius,
                 queryVars, voteVars, formVars, cacheVars>>

NextRisk ==
  \/ \E data \in RiskSnapshots : OnReportsSnapshot(data)
  \/ \E p \in Points : Click(p)
  \/ WhenCreated
  \/ ToggleShowRadius

SpecRisk == InitRisk /\ [][NextRisk]_vars

----------------------------------------------------------------------------
(* Claims about the crime rate *)

\* the reports that have a position and cover point p with their own radius
C5_Covering(p, rs) ==
  {i \in DOMAIN rs : /\ Has(rs[i], "pos") /\ Has(rs[i], "radius")
                     /\ getDistance(p, rs[i].pos) <= rs[i].radius}

C5_Weight(c) == CASE c = "Severe" -> 90 [] c = "Moderate" -> 60 [] OTHER -> 30

RECURSIVE C5_WeightSum(_, _)
C5_WeightSum(S, rs) ==
  IF S = {} THEN 0
  ELSE LET i == CHOOSE x \in S : TRUE
       IN C5_Weight(rs[i].category) + C5_WeightSum(S \ {i}, rs)

\* n is the average of the weights over the covering reports, rounded to the
\* nearest integer (0 when no report covers p)
C5_IsRisk(n, p, rs) ==
  LET N == C5_Covering(p, rs)
      k == Cardinality(N)
      sum == C5_WeightSum(N, rs)
  IN /\ n \in 0..100
     /\ IF N = {} THEN n = 0
        ELSE 2 * k * n <= 2 * sum + k /\ 2 * sum + k < 2 * k * (n + 1)

C5_CategoryCalls(log) == {i \in DOMAIN log : log[i].by = "MapEvents"}

C6_RateFollowsReports ==
  selectedPos # <<>> =>
    centerCrimeRate \in {CategoryRate(selectedPos[1], reports),
                         CrimeProbRate(selectedPos[1], reports)}

\* C7: after a click both scores are exposed and neither overwrote the
\* other: the stored-probability average was computed and every value a
\* click listener computed is still the value held for it.
C7_BothRatesExposed ==
  clickLog # <<>> =>
    /\ \E i \in DOMAIN clickLog : clickLog[i].by = "handleClick"
    /\ \E i \in DOMAIN clickLog : clickLog[i].by = "MapEvents"
    /\ \A i \in DOMAIN clickLog : clickLog[i].rate = centerCrimeRate

\* C19: one default radius applies to a report stored without a radius: the
\* points at which a report contributes to the risk computations (both use
\* the same nearby filter) are exactly the points inside the circle
\* displayed for it.
C19_OneDefaultRadius ==
  \A i \in DOMAIN reports :
     Has(reports[i], "pos") =>
       \A p \in Points :
          (Nearby(p, <<reports[i]>>) # <<>>)
            <=> (getDistance(p, reports[i].pos) <= MarkerRadius(reports[i]))

----------------------------------------------------------------------------
(* Specification: the report list under the search / range / sort controls *)

\* documents of the snapshots tried: mixed case titles, with and without pos and votes
ViewDoc(k) ==
  CASE k = 1 -> Doc(AllFields, 0, <<"A">>, <<"b">>, "Low", 0, 1, 300, 0)
    [] k = 2 -> Doc(AllFields, 1500, <<"a">>, <<"a">>, "Severe", 1, 0, 300, 0)
    [] k = 3 -> Doc(AllFields \ {"pos"}, 0, <<"b">>, <<"b">>, "Moderate", 1, 1, 300, 0)
    [] k = 4 -> Doc(AllFields \ {"votes"}, 0, <<"b">>, <<"a">>, "Uncategorized", 0, 0, 300, 0)
    [] k = 5 -> Doc(AllFields, 600, <<"a">>, <<"b">>, "Low", 0, 0, 300, 0)

ViewDocIds == 1..5

ViewSnapshots ==
  {[i \in DOMAIN f |-> WithId(i, ViewDoc(f[i]))] : f \in IndexSeqs(ViewDocIds)}

\* the search strings typed
QueryChars == {"a", "A", " "}
Queries == UNION {[1..n -> QueryChars] : n \in 0..MaxQueryLen}

\* the values of the range slider tried (min 1, max 20, initially 7)
Ranges == {1, 7}

InitView ==
  /\ StoreInit
  /\ user = "u1"
  /\ ClientInit
  /\ FormInit
  /\ CacheInit
  /\ HistoryInit

\* onChange of the search input
SetSearchQuery(q) ==
  /\ searchQuery' = q
  /\ UNCHANGED <<storeVars, user, reports, voted, riskVars, mapCenter, sortMode, rangeKm,
                 sortBy, voteVars, formVars, cacheVars>>

\* the Nearby / Worldwide buttons
SetSortMode(mode) ==
  /\ sortMode' = mode
  /\ UNCHANGED <<storeVars, user, reports, voted, riskVars, mapCenter, searchQuery, rangeKm,
                 sortBy, voteVars, formVars, cacheVars>>

\* onChange of the range slider
SetRangeKm(km) ==
  /\ sortMode = "nearby"
  /\ rangeKm' = km
  /\ UNCHANGED <<storeVars, user, reports, voted, riskVars, mapCenter, searchQuery, sortMode,
                 sortBy, voteVars, formVars, cacheVars>>

\* onChange of the sort-by select
SetSortBy(key) ==
  /\ sortBy' = key
  /\ UNCHANGED <<storeVars, user, reports, voted, riskVars, mapCenter, searchQuery, sortMode,
                 rangeKm, voteVars, formVars, cacheVars>>

\* moveend / zoomend: setMapCenter(map.getCenter())
MoveEnd(p) ==
  /\ mapCenter' = <<p>>
  /\ UNCHANGED <<storeVars, user, reports, voted, riskVars, searchQuery, sortMode, rangeKm,
                 sortBy, voteVars, formVars, cacheVars>>

NextView ==
  \/ \E data \in ViewSnapshots : OnReportsSnapshot(data)
  \/ \E q \in Queries : SetSearchQuery(q)
  \/ \E mode \in {"nearby", "worldwide"} : SetSortMode(mode)
  \/ \E km \in Ranges : SetRangeKm(km)
  \/ \E key \in {"upvotes", "downvotes", "severity"} : SetSortBy(key)
  \/ \E p \in Points : MoveEnd(p)

SpecView == InitView /\ [][NextView]_vars

----------------------------------------------------------------------------
(* Claims about the report list *)

ViewIds == {filteredReports.list[i].id : i \in DOMAIN filteredReports.list}

\* C8: in nearby mode the view holds exactly the text-matching reports that
\* have a position within rangeKm * 1000 metres of the reference point (so
\* none without a position); in worldwide mode every text-matching report.
C8_SpatialFilter ==
  filteredReports.ok =>
    ViewIds =
      {reports[i].id : i \in
         {j \in DOMAIN reports :
            /\ SearchFilter(reports[j], searchQuery)
            /\ sortMode = "nearby" =>
                 /\ Has(reports[j], "pos")
                 /\ getDistance(mapCenter[1], reports[j].pos) <= rangeKm * 1000}}

\* two characters that differ at most in case
C9_SameLetter(c, d) == c = d \/ {c, d} = {"a", "A"}

\* q occurs in t, case ignored
C9_Occurs(q, t) ==
  \E k \in 0..(Len(t) - Len(q)) : \A i \in 1..Len(q) : C9_SameLetter(t[k + i], q[i])

\* C9 as stated: the text filter keeps a report if and only if the query,
\* case ignored, is a substring of the concatenation of title and description.
C9_TextFilterConcat ==
  (sortMode = "worldwide" /\ filteredReports.ok) =>
    ViewIds = {reports[i].id : i \in
                 {j \in DOMAIN reports :
                    C9_Occurs(searchQuery, reports[j].title \o reports[j].desc)}}

\* C9 amended: the text filter keeps a report if and only if the query, case
\* ignored, is a substring of the title, one space and the description; an
\* empty query keeps every report.
C9_TextFilterJoined ==
  (sortMode = "worldwide" /\ filteredReports.ok) =>
    /\ ViewIds = {reports[i].id : i \in
                    {j \in DOMAIN reports :
                       C9_Occurs(searchQuery,
                                 reports[j].title \o <<" ">> \o reports[j].desc)}}
    /\ searchQuery = <<>> => Len(filteredReports.list) = Len(reports)

\* C9 witness: the query "A " keeps the report titled "a" and drops "b b"
C9_Witness ==
  /\ sortMode = "worldwide"
  /\ searchQuery = <<"A", " ">>
  /\ Len(reports) = 2
  /\ reports[1].title = <<"a">> /\ reports[2].title = <<"b">> /\ reports[2].desc = <<"b">>
  /\ filteredReports.ok
  /\ ViewIds = {1}

C10_Key(r) ==
  CASE sortBy = "upvotes" -> r.votes.up
    [] sortBy = "downvotes" -> r.votes.down
    [] sortBy = "severity" ->
         (CASE r.category = "Severe" -> 3 [] r.category = "Moderate" -> 2
            [] r.category = "Low" -> 1 [] OTHER -> 0)

\* the filter output the sort works on
C10_Input == Filtered(reports, searchQuery, sortMode, mapCenter, rangeKm)

C10_IndexIn(s, r) == CHOOSE i \in DOMAIN s : s[i] = r

\* C10: the view is the filtered input rearranged in descending order of the
\* selected key, and reports that tie on the key keep the relative order
\* they have in the filtered input.
C10_StableDescendingSort ==
  filteredReports.ok =>
    LET v == filteredReports.list
    IN /\ Len(v) = Len(C10_Input)
       /\ {v[i] : i \in DOMAIN v} = {C10_Input[i] : i \in DOMAIN C10_Input}
       /\ \A i \in DOMAIN v, j \in DOMAIN v :
             i < j => /\ C10_Key(v[i]) >= C10_Key(v[j])
                      /\ C10_Key(v[i]) = C10_Key(v[j])
                           => C10_IndexIn(C10_Input, v[i]) < C10_IndexIn(C10_Input, v[j])

\* C10 witness: votes.up 0, 1, 1 in input order 1, 2, 3 are listed 2, 3, 1
C10_Witness ==
  /\ sortBy = "upvotes"
  /\ filteredReports.ok
  /\ Len(C10_Input) = 3
  /\ [i \in 1..3 |-> C10_Input[i].votes.up] = <<0, 1, 1>>
  /\ [i \in 1..3 |-> filteredReports.list[i].id] = <<2, 3, 1>>

\* C13: a record that lacks position or votes is not fatal: the view
\* computation (filter, sort, list rendering) completes without an error for
\* every snapshot, in both modes and under every sort key, and such a record
\* is left out of every distance-based filter and of the risk computation.
C13_MalformedNotFatal ==
  /\ filteredReports.ok
  /\ ListRenders
  /\ sortMode = "nearby" =>
       \A i \in DOMAIN filteredReports.list : Has(filteredReports.list[i], "pos")
  /\ \A p \in Points :
        LET near == Nearby(p, reports)
        IN \A i \in DOMAIN near : Has(near[i], "pos")

\* C14: once a snapshot has been ingested and its view is served, a view
\* stays servable in every later state, also while and after a newer
\* snapshot is ingested.
C14_ViewStaysServable ==
  [][(reports # <<>> /\ ListRenders) => ListRenders']_vars

----------------------------------------------------------------------------
(* Specification: the submission form (ReportForm) *)

MaxDigits == 4       \* length of the texts typed into the radius input

\* String.prototype.trim on a sequence of characters or words
IsSpace(c) == c \in {" ", "\n"}

RECURSIVE trim(_)
trim(s) ==
  IF s = <<>> THEN <<>>
  ELSE IF IsSpace(s[1]) THEN trim(Tail(s))
  ELSE IF IsSpace(s[Len(s)]) THEN trim(SubSeq(s, 1, Len(s) - 1))
  ELSE s

\* the texts typed into the title and description inputs
Titles == {<<>>, <<" ">>, <<" ", "a">>}
Descriptions == {<<>>, <<" ">>, <<"b", " ">>}

\* the characters typed into the radius input
Digits == {"0", "5"}

DigitValue(c) == IF c = "5" THEN 5 ELSE IF c = "3" THEN 3 ELSE 0

\* what the radius state can hold: the initial 300 or e.target.value
RadiusTexts == {<<"3", "0", "0">>} \cup UNION {[1..n -> Digits] : n \in 0..MaxDigits}

\* Number(radius): 0 for the empty string, else the value of the digits
RECURSIVE Number(_)
Number(s) ==
  IF s = <<>> THEN 0
  ELSE 10 * Number(SubSeq(s, 1, Len(s) - 1)) + DigitValue(s[Len(s)])

\* constraint validation of <input type="number" min="50" max="5000" step="50">
\* at submit: the input is not required, so the empty value is valid
RadiusValid(s) ==
  \/ s = <<>>
  \/ /\ Number(s) >= 50
     /\ Number(s) <= 5000
     /\ (Number(s) - 50) % 50 = 0

\* the words the classifier answers with
Words == {"Severe", "High"}

\* result.response.text(): a word, bare or wrapped in white space, or nothing
ResponseTexts == UNION {{<<w>>, <<" ", w, "\n">>} : w \in Words} \cup {<<"\n">>}

\* the string a text of at most one word spells
TextOf(s) == IF s = <<>> THEN "" ELSE s[1]

\* generateSeverity: the trimmed text of the response, whatever it is;
\* "Uncategorized" when the request throws
generateSeverity(fails, text) ==
  IF fails THEN "Uncategorized" ELSE TextOf(trim(text))

\* the data object of handleSubmit
SubmitData(position, title, description, severity, radiusText) ==
  Doc(AllFields, position, trim(title), trim(description), severity, 0, 0,
      Number(radiusText), 0)

\* onChange of the radius input: setRadius(e.target.value)
SetRadius(s) ==
  /\ formRadius' = s
  /\ UNCHANGED <<storeVars, user, reports, voted, riskVars, queryVars, voteVars, cacheVars>>

\* a ReportForm is mounted anew after the previous one was closed
MountForm ==
  /\ formRadius' = <<"3", "0", "0">>
  /\ UNCHANGED <<storeVars, user, reports, voted, riskVars, queryVars, voteVars, cacheVars>>

\* handleSubmit up to addDoc (setDoc follows as SetDoc): the submit event
\* fires when the form is valid, and the handler returns on a blank title or
\* description
handleSubmit(title, description, fails, text) ==
  /\ title # <<>> /\ description # <<>>
  /\ RadiusValid(formRadius)
  /\ trim(title) # <<>> /\ trim(description) # <<>>
  /\ AddDoc(SubmitData(0, title, description, generateSeverity(fails, text), formRadius))

InitForm ==
  /\ StoreInit
  /\ user = "u1"
  /\ ClientInit
  /\ FormInit
  /\ CacheInit
  /\ HistoryInit

NextForm ==
  \/ \E s \in RadiusTexts : SetRadius(s)
  \/ MountForm
  \/ \E title \in Titles, description \in Descriptions, fails \in BOOLEAN,
        text \in ResponseTexts : handleSubmit(title, description, fails, text)
  \/ \E id \in ReportIds : SetDoc(id)

SpecForm == InitForm /\ [][NextForm]_vars

----------------------------------------------------------------------------
(* Claims about the submission form *)

\* C12: every report created through the submission form has a category in
\* {Severe, Moderate, Low, Uncategorized}, whatever the classifier returns.
C12_CategoryInEnum ==
  \A id \in DOMAIN store :
     store[id].category \in {"Severe", "Moderate", "Low", "Uncategorized"}

\* C16: every report written by the submission form has a radius that is an
\* integer in [50, 5000], for every value the radius input can hold at submit
\* time.
C16_RadiusInRange ==
  \A id \in DOMAIN store : store[id].radius \in 50..5000

----------------------------------------------------------------------------
(* Specification: a vote as the client sees it through the Firestore cache *)

\* two reports were submitted earlier; the MapView of u1 is mounted
InitEcho ==
  /\ store = [id \in ReportIds |-> FormData(0)]
  /\ userVotes = [u \in Users |-> {}]
  /\ pendingSet = <<>>
  /\ user = "u1"
  /\ ClientInit
  /\ FormInit
  /\ CacheInit
  /\ HistoryInit

\* a click on a vote arrow: handleVote up to the call of batch.commit(); the
\* batch becomes a pending write of the Firestore client
VoteWrite(i, type) ==
  /\ user # NoUser
  /\ ListRenders
  /\ i \in DOMAIN filteredReports.list
  /\ filteredReports.list[i].id \notin voted
  /\ localWrite = <<>>
  /\ localWrite' = <<user, filteredReports.list[i].id, type>>
  /\ UNCHANGED <<storeVars, user, reports, voted, riskVars, queryVars, voteVars, formVars>>

\* await batch.commit() settles: the server applied the batch or rejected it
\* (the rejection is caught and logged); the pending write is dropped
VoteResolve ==
  /\ localWrite # <<>>
  /\ BatchCommit(localWrite[1], localWrite[2], localWrite[3])
  /\ localWrite' = <<>>
  /\ UNCHANGED <<pendingSet, user, reports, voted, riskVars, queryVars, formVars>>

NextEcho ==
  \/ \E i \in 1..Cardinality(ReportIds), t \in VoteTypes : VoteWrite(i, t)
  \/ VoteResolve
  \/ OnReportsSnapshot(SnapshotOf(LocalStore))
  \/ OnVotesSnapshot

SpecEcho == InitEcho /\ [][NextEcho]_vars

\* C15: no UI state reflects a vote before the store has accepted it: a vote
\* arrow is disabled only for a report on which this user's vote was
\* committed, and no displayed count exceeds the committed count; a vote
\* whose write failed is never shown as cast.
C15_NoVoteShownBeforeAccepted ==
  /\ \A id \in voted : <<user, id>> \in applied
  /\ \A i \in DOMAIN reports :
        /\ reports[i].votes.up <= store[reports[i].id].votes.up
        /\ reports[i].votes.down <= store[reports[i].id].votes.down

====
